---- MODULE Spec2Model ----
(***************************************************************************)
(* S3GlobReaderDataConnector                                               *)
(* (great_expectations/execution_environment/data_connector/               *)
(*  s3_data_connector.py) as a state machine.                              *)
(*                                                                         *)
(* Python values:                                                          *)
(*   - a dict is a function over its keys (EmptyDict is {});               *)
(*   - an optional value is None (<<>>) or Some(v) (<<v>>);                *)
(*   - an S3 key, a prefix, a partition id are sequences of characters,    *)
(*     a sentinel partition id is the timestamp followed by its suffix;    *)
(*   - a regular expression is a sequence of character classes with its    *)
(*     capture groups; re.match anchors it at the start of the string.     *)
(* The object store (boto3 list_objects_v2) is the environment: a listing  *)
(* per prefix, cut into pages of MaxKeys entries, the continuation token   *)
(* being the offset of the next page.                                      *)
(***************************************************************************)
EXTENDS Integers, Sequences, FiniteSets, TLC

VARIABLES
    store,            \* environment: Prefix -> the entries the store lists
    _max_keys,        \* self._max_keys
    _reader_method,   \* self._reader_method (None or Some(method))
    _reader_options,  \* self._reader_options (one dict object, shared)
    _iterators,       \* self._iterators: name -> iterator_dict
    passes,           \* the generators handed out by _get_iterator
    listed,           \* per name: the most recent listing response
    result,           \* outcome of the most recent call on the connector
    resolved          \* outcome of the most recent _partitioner call

vars == <<store, _max_keys, _reader_method, _reader_options, _iterators,
          passes, listed, result, resolved>>

----------------------------------------------------------------------------
(* Bounds *)

MaxObjects == 3     \* entries the store lists for an asset
MaxPasses == 2      \* generators alive at once
RecursionLimit == 6 \* nested generator invocations the interpreter allows

----------------------------------------------------------------------------
(* Python values *)

None == <<>>
Some(v) == <<v>>
EmptyDict == [k \in {} |-> None]

\* dict.get(k, default)
Get(d, k, default) == IF k \in DOMAIN d THEN d[k] ELSE default

\* dict.get(k): None when the key is absent
GetOpt(d, k) == IF k \in DOMAIN d THEN Some(d[k]) ELSE None

\* d.update(u), as a value
Update(d, u) ==
    [k \in DOMAIN d \cup DOMAIN u |-> IF k \in DOMAIN u THEN u[k] ELSE d[k]]

\* del d[k]
Del(d, k) == [j \in DOMAIN d \ {k} |-> d[j]]

\* truth value of an optional dict / string / integer
TruthyDict(o) == o # None /\ DOMAIN o[1] # {}
TruthyStr(o) == o # None /\ o[1] # ""
TruthyInt(o) == o # None /\ o[1] # 0

Min(a, b) == IF a < b THEN a ELSE b

\* mutant of startswith: every string counts as starting with the prefix
startswith_any(x, prefix) == TRUE

\* x.startswith(prefix)
startswith(x, prefix) ==
    /\ Len(prefix) <= Len(x)
    /\ \A i \in 1..Len(prefix) : x[i] = prefix[i]

----------------------------------------------------------------------------
(* Regular expressions: a sequence of character classes (atoms) and the    *)
(* capture groups as <<first atom, last atom>>.                            *)

Digits == {"0", "1", "2"}

\* the pattern matches string at position pos
MatchesAt(pattern, string, pos) ==
    /\ pos + Len(pattern.atoms) - 1 <= Len(string)
    /\ \A i \in 1..Len(pattern.atoms) : string[pos + i - 1] \in pattern.atoms[i]

\* mutant of re_match: re.search, the pattern may match anywhere in string
re_search(pattern, string) ==
    LET found == { pos \in 1..(Len(string) + 1) :
                       MatchesAt(pattern, string, pos) }
    IN  IF found # {}
        THEN Some([re |-> pattern, string |-> string,
                   pos |-> CHOOSE pos \in found : \A q \in found : pos <= q])
        ELSE None

\* re.match(pattern, string): the pattern must match at the start of string
re_match(pattern, string) ==
    IF /\ Len(string) >= Len(pattern.atoms)
       /\ \A i \in 1..Len(pattern.atoms) : string[i] \in pattern.atoms[i]
    THEN Some([re |-> pattern, string |-> string, pos |-> 1])
    ELSE None

\* match.group(g) raises IndexError unless g names a group of the pattern
HasGroup(m, g) == g \in 0..Len(m.re.groups)

\* match.group(g)
group(m, g) ==
    IF g = 0
    THEN SubSeq(m.string, m.pos, m.pos + Len(m.re.atoms) - 1)
    ELSE SubSeq(m.string, m.pos + m.re.groups[g][1] - 1,
                          m.pos + m.re.groups[g][2] - 1)

\* the default regex_filter ".*": matches every key
MatchAll == [atoms |-> <<>>, groups |-> <<>>]

----------------------------------------------------------------------------
(* _partitioner (lines 373-406); now is the formatted current time         *)

_partitioner(key, asset_config, now) ==
    IF "partition_regex" \in DOMAIN asset_config
    THEN LET match_group_id == Get(asset_config, "match_group_id", 1)
             matches == re_match(asset_config["partition_regex"], key)
         IN  IF matches = None
             THEN now \o <<"__unmatched">>
             ELSE IF HasGroup(matches[1], match_group_id)
                  THEN group(matches[1], match_group_id)
                  ELSE now \o <<"__no_match_group">>
    ELSE LET prefix == Get(asset_config, "prefix", <<>>)
         IN  IF startswith(key, prefix)
             THEN SubSeq(key, Len(prefix) + 1, Len(key))
             ELSE key

----------------------------------------------------------------------------
(* The connector's configuration (constructor arguments, lines 65-105)     *)

bucket == "my_bucket"
_delimiter == "/"

\* partition_regex (\d\d)
TwoDigits == [atoms |-> <<Digits, Digits>>, groups |-> << <<1, 2>> >>]

\* regex_filter [l2]
StartsL2 == [atoms |-> << {"l", "2"} >>, groups |-> <<>>]

\* "logs": file mode, filtered and partitioned by regex, page size inherited
LogsAsset ==
    ("prefix" :> <<>>) @@ ("regex_filter" :> StartsL2)
    @@ ("partition_regex" :> TwoDigits)

\* "dirs": directory mode, own page size, reader_method and reader_options
DirsAsset ==
    ("prefix" :> <<"l", "/">>) @@ ("directory_assets" :> TRUE)
    @@ ("max_keys" :> 1) @@ ("reader_method" :> "csv")
    @@ ("reader_options" :> ("sep" :> "~"))

_assets == ("logs" :> LogsAsset) @@ ("dirs" :> DirsAsset)

\* asset names a caller may pass: the registered ones and one that is not
Names == DOMAIN _assets \cup {"nope"}

----------------------------------------------------------------------------
(* The object store                                                        *)

\* what the store may hold under the prefix of "logs"
LogsEntries ==
    { [Key |-> <<"2", "0", "/", "l">>, Size |-> 1],
      [Key |-> <<"2", "0", "/", "m">>, Size |-> 1],
      [Key |-> <<"m", "/", "2", "0">>, Size |-> 1],
      [Key |-> <<"2", "1", "/", "l">>, Size |-> 0] }

\* what the store holds under the prefix of "dirs"
DirsListing ==
    << [Key |-> <<"l", "/", "0", "/">>, Size |-> 0],
       [Key |-> <<"l", "/", "1", "/">>, Size |-> 0] >>

\* the listings of at most n entries of S; the store lists a key once
Listings(S, n) ==
    { l \in UNION { [1..m -> S] : m \in 0..n } :
          \A i, j \in 1..Len(l) : l[i] = l[j] => i = j }

\* the collections a response may expose
Collections == {"Contents", "CommonPrefixes"}

\* self._s3.list_objects_v2(**query_options) (line 282): the page of at most
\* MaxKeys entries at the offset the continuation token names; expose is the
\* set of collections the store puts in this response.
list_objects_v2(query_options, expose) ==
    LET listing == store[query_options["Prefix"]]
        start == Get(query_options, "ContinuationToken", 0)
        end == Min(start + query_options["MaxKeys"], Len(listing))
        page == SubSeq(listing, start + 1, end)
        truncated == end < Len(listing)
    IN  ("IsTruncated" :> truncated)
        @@ (IF truncated THEN "NextContinuationToken" :> end ELSE EmptyDict)
        @@ (IF "Contents" \in expose THEN "Contents" :> page ELSE EmptyDict)
        @@ (IF "CommonPrefixes" \in expose
            THEN "CommonPrefixes" :>
                     [i \in 1..Len(page) |-> [Prefix |-> page[i].Key]]
            ELSE EmptyDict)

\* The store's choice of collections for the n-th response of a call on the
\* connector: the one the asset's mode reads, except in response number bad.
Expose(asset_config, n, bad) ==
    LET reads == IF Get(asset_config, "directory_assets", FALSE)
                 THEN "CommonPrefixes" ELSE "Contents"
    IN  IF n = bad THEN Collections \ {reads} ELSE {reads}

----------------------------------------------------------------------------
(* _build_batch_kwargs_from_key (lines 236-263).  batch_kwargs               *)
(* ["reader_options"] is self.reader_options itself (line 246), so the two   *)
(* update calls (lines 249, 251) change the connector's dict: the operator   *)
(* returns the descriptor and the connector's reader_options after the call. *)

S3Uri(key) == <<"s3a://", bucket, "/">> \o key

_build_batch_kwargs_from_key(self_reader_options, key, asset_config, reader_method, reader_options, limit) ==
    LET ro0 == self_reader_options
        ro1 == IF TruthyDict(GetOpt(asset_config, "reader_options"))
               THEN Update(ro0, asset_config["reader_options"])
               ELSE ro0
        ro2 == IF reader_options # None
               THEN Update(ro1, reader_options[1])
               ELSE ro1
        bk0 == ("s3" :> S3Uri(key)) @@ ("reader_options" :> ro2)
        bk1 == IF _reader_method # None
               THEN Update(bk0, "reader_method" :> _reader_method[1])
               ELSE bk0
        bk2 == IF TruthyStr(GetOpt(asset_config, "reader_method"))
               THEN Update(bk1, "reader_method" :> asset_config["reader_method"])
               ELSE bk1
        bk3 == IF reader_method # None
               THEN Update(bk2, "reader_method" :> reader_method[1])
               ELSE bk2
        bk4 == IF TruthyInt(limit)
               THEN Update(bk3, "limit" :> limit[1])
               ELSE bk3
    IN  [batch_kwargs |-> bk4, reader_options |-> ro2]

----------------------------------------------------------------------------
(* _get_asset_options (lines 265-331), a generator                          *)

\* mutant of query_options: the stored continuation token is not sent
query_options_no_token(asset_config, iterator_dict) ==
    ("Bucket" :> bucket)
    @@ ("Delimiter" :> Get(asset_config, "delimiter", _delimiter))
    @@ ("Prefix" :> Get(asset_config, "prefix", None))
    @@ ("MaxKeys" :> Get(asset_config, "max_keys", _max_keys))

\* lines 266-277
query_options(asset_config, iterator_dict) ==
    LET base == ("Bucket" :> bucket)
                @@ ("Delimiter" :> Get(asset_config, "delimiter", _delimiter))
                @@ ("Prefix" :> Get(asset_config, "prefix", None))
                @@ ("MaxKeys" :> Get(asset_config, "max_keys", _max_keys))
    IN  IF "continuation_token" \in DOMAIN iterator_dict
        THEN Update(base,
                    "ContinuationToken" :> iterator_dict["continuation_token"])
        ELSE base

\* lines 283-284, 296-297: the response has the collection the mode reads
ShapeOK(asset_config, asset_options) ==
    IF Get(asset_config, "directory_assets", FALSE)
    THEN "CommonPrefixes" \in DOMAIN asset_options
    ELSE "Contents" \in DOMAIN asset_options

Reverse(s) == [i \in 1..Len(s) |-> s[Len(s) + 1 - i]]

\* mutant of page_keys: the keys of a page come out in reverse order
page_keys_reversed(asset_config, asset_options) ==
    LET NonEmpty(item) == item.Size > 0
        Wanted(x) ==
            re_match(Get(asset_config, "regex_filter", MatchAll), x) # None
        keys == IF Get(asset_config, "directory_assets", FALSE)
                THEN LET cp == asset_options["CommonPrefixes"]
                     IN  [i \in 1..Len(cp) |-> cp[i].Prefix]
                ELSE LET c == SelectSeq(asset_options["Contents"], NonEmpty)
                     IN  [i \in 1..Len(c) |-> c[i].Key]
    IN  Reverse(SelectSeq(keys, Wanted))

\* mutant of page_keys: entries of size 0 are kept
page_keys_all_sizes(asset_config, asset_options) ==
    LET Wanted(x) ==
            re_match(Get(asset_config, "regex_filter", MatchAll), x) # None
        keys == IF Get(asset_config, "directory_assets", FALSE)
                THEN LET cp == asset_options["CommonPrefixes"]
                     IN  [i \in 1..Len(cp) |-> cp[i].Prefix]
                ELSE LET c == asset_options["Contents"]
                     IN  [i \in 1..Len(c) |-> c[i].Key]
    IN  SelectSeq(keys, Wanted)

\* mutant of page_keys: the loop over a page stops after its first key
page_keys_head(asset_config, asset_options) ==
    LET NonEmpty(item) == item.Size > 0
        Wanted(x) ==
            re_match(Get(asset_config, "regex_filter", MatchAll), x) # None
        keys == IF Get(asset_config, "directory_assets", FALSE)
                THEN LET cp == asset_options["CommonPrefixes"]
                     IN  [i \in 1..Len(cp) |-> cp[i].Prefix]
                ELSE LET c == SelectSeq(asset_options["Contents"], NonEmpty)
                     IN  [i \in 1..Len(c) |-> c[i].Key]
        kept == SelectSeq(keys, Wanted)
    IN  SubSeq(kept, 1, Min(1, Len(kept)))

\* lines 295, 309-320: the keys of a page, size filter then regex filter
page_keys(asset_config, asset_options) ==
    LET NonEmpty(item) == item.Size > 0
        Wanted(x) ==
            re_match(Get(asset_config, "regex_filter", MatchAll), x) # None
        keys == IF Get(asset_config, "directory_assets", FALSE)
                THEN LET cp == asset_options["CommonPrefixes"]
                     IN  [i \in 1..Len(cp) |-> cp[i].Prefix]
                ELSE LET c == SelectSeq(asset_options["Contents"], NonEmpty)
                     IN  [i \in 1..Len(c) |-> c[i].Key]
    IN  SelectSeq(keys, Wanted)

\* mutant of store_token: the token stored points one entry too far
store_token_skipping(iterator_dict, asset_options) ==
    Update(iterator_dict,
           "continuation_token" :> asset_options["NextContinuationToken"] + 1)

\* mutant of store_token: the token of the page is not stored
store_token_dropped(iterator_dict, asset_options) == iterator_dict

\* lines 324-325: the token stored on leaving a truncated page
store_token(iterator_dict, asset_options) ==
    Update(iterator_dict,
           "continuation_token" :> asset_options["NextContinuationToken"])

\* mutant of clear_token: the token is left in place at the end
clear_token_kept(iterator_dict) == iterator_dict

\* lines 329-331: the token cleared at the end of the listing
clear_token(iterator_dict) ==
    IF "continuation_token" \in DOMAIN iterator_dict
    THEN Del(iterator_dict, "continuation_token")
    ELSE iterator_dict

\* mutant of has_more: the generator stops after its first page
has_more_never(asset_options) == FALSE

\* line 324: the listing goes on
has_more(asset_options) == asset_options["IsTruncated"]

\* A generator that has not run yet, and the log of one call on the connector
NewGen == [pc |-> "start", keys |-> <<>>, asset_options |-> EmptyDict,
           depth |-> 0]
Closed == [pc |-> "closed", keys |-> <<>>, asset_options |-> EmptyDict,
           depth |-> 0]
NoCalls == [calls |-> <<>>, truncated |-> None]

\* One next() on the generator: run it from where it is suspended to its
\* next yield, to its end, or to the exception it raises.  gen.pc is "start"
\* before the listing call of a (recursive) invocation and "keys" inside the
\* loop of lines 321-322; gen.asset_options keeps what lines 324-325 read of
\* the response; gen.depth counts the nested invocations (line 327), which
\* the interpreter allows up to RecursionLimit.  log records the listing
\* calls made (the token each carried) and the IsTruncated of the last
\* response.
RECURSIVE resume(_, _, _, _, _)
resume(asset_config, iterator_dict, gen, bad, log) ==
    IF gen.pc = "start"
    THEN IF gen.depth >= RecursionLimit
         THEN [event |-> "raise", error |-> "RecursionError", key |-> None,
               iterator_dict |-> iterator_dict, gen |-> Closed, log |-> log]
         ELSE
         LET q == query_options(asset_config, iterator_dict)
             asset_options ==
                 list_objects_v2(q, Expose(asset_config, Len(log.calls) + 1, bad))
             log1 == [calls |-> Append(log.calls, GetOpt(q, "ContinuationToken")),
                      truncated |-> Some(asset_options["IsTruncated"])]
         IN  IF ~ShapeOK(asset_config, asset_options)
             THEN [event |-> "raise", error |-> "BatchKwargsError",
                   key |-> None, iterator_dict |-> iterator_dict,
                   gen |-> Closed, log |-> log1]
             ELSE resume(asset_config, iterator_dict,
                         [pc |-> "keys",
                          keys |-> page_keys(asset_config, asset_options),
                          asset_options |->
                              [k \in DOMAIN asset_options
                                       \cap {"IsTruncated", "NextContinuationToken"}
                                   |-> asset_options[k]],
                          depth |-> gen.depth + 1],
                         bad, log1)
    ELSE IF gen.keys # <<>>
    THEN [event |-> "yield", error |-> "", key |-> Some(Head(gen.keys)),
          iterator_dict |-> iterator_dict,
          gen |-> [gen EXCEPT !.keys = Tail(@)],
          log |-> log]
    ELSE IF has_more(gen.asset_options)
    THEN resume(asset_config, store_token(iterator_dict, gen.asset_options),
                [NewGen EXCEPT !.depth = gen.depth], bad, log)
    ELSE [event |-> "stop", error |-> "", key |-> None,
          iterator_dict |-> clear_token(iterator_dict),
          gen |-> Closed, log |-> log]

\* The generator consumed by a for loop or a comprehension (lines 205, 369):
\* every key it yields, until it ends or raises.
RECURSIVE drain(_, _, _, _, _, _)
drain(asset_config, iterator_dict, gen, bad, log, keys) ==
    LET r == resume(asset_config, iterator_dict, gen, bad, log)
    IN  IF r.event = "yield"
        THEN drain(asset_config, r.iterator_dict, r.gen, bad, r.log,
                   Append(keys, r.key[1]))
        ELSE [event |-> r.event, error |-> r.error, keys |-> keys,
              iterator_dict |-> r.iterator_dict, log |-> r.log]

----------------------------------------------------------------------------
(* Initial state: the connector after __init__ (lines 90-105)              *)

ConfiguredReaderOptions == ("sep" :> ",")
PageSizes == {1, 2}
Timestamps == { <<"T1">>, <<"T2">> }
Clock == { <<"T1">> }

Unused == [status |-> "unused", name |-> "", reader_method |-> None,
           reader_options |-> None, limit |-> None, gen |-> NewGen,
           start |-> None, out |-> <<>>, calls |-> <<>>]
NotListed == [truncated |-> None, by |-> 0, ended |-> FALSE]
NoResult == [op |-> "", outcome |-> ""]

StoreOf(logs) ==
    (LogsAsset["prefix"] :> logs) @@ (DirsAsset["prefix"] :> DirsListing)

InitConnector ==
    /\ _reader_options = ConfiguredReaderOptions
    /\ _iterators = EmptyDict
    /\ passes = [p \in 1..MaxPasses |-> Unused]
    /\ listed = [n \in Names |-> NotListed]
    /\ result = NoResult
    /\ resolved = NoResult

Init ==
    /\ InitConnector
    /\ store \in { StoreOf(logs) : logs \in Listings(LogsEntries, MaxObjects) }
    /\ _max_keys \in PageSizes
    /\ _reader_method = Some("parquet")

----------------------------------------------------------------------------
(* _get_iterator (lines 134-169): hands out the generator                  *)
(* _build_asset_iterator; nothing of its body runs before the first next() *)

FreeSlots == { p \in 1..MaxPasses : passes[p].status = "unused" }

\* lines 158-159, 201-202, 363-364
ensure_iterator(name) ==
    IF name \in DOMAIN _iterators
    THEN _iterators
    ELSE Update(_iterators, name :> EmptyDict)

\* mutant of _get_iterator: lines 158-159 run before the check of line 147
_get_iterator_registering(data_asset_name, reader_method, reader_options, limit) ==
    IF data_asset_name \notin DOMAIN _assets
    THEN /\ result' = [op |-> "_get_iterator", name |-> data_asset_name,
                       outcome |-> "raise", error |-> "BatchKwargsError",
                       value |-> ("data_asset_name" :> data_asset_name)
                                 @@ ("reader_method" :> reader_method)
                                 @@ ("reader_options" :> reader_options)
                                 @@ ("limit" :> limit)]
         /\ _iterators' = ensure_iterator(data_asset_name)
         /\ UNCHANGED <<store, _max_keys, _reader_method, _reader_options,
                        passes, listed, resolved>>
    ELSE /\ FreeSlots # {}
         /\ LET p == CHOOSE q \in FreeSlots : \A r \in FreeSlots : q <= r
            IN  /\ passes' = [passes EXCEPT ![p] =
                       [Unused EXCEPT !.status = "created",
                                      !.name = data_asset_name,
                                      !.reader_method = reader_method,
                                      !.reader_options = reader_options,
                                      !.limit = limit]]
                /\ result' = [op |-> "_get_iterator", name |-> data_asset_name,
                              outcome |-> "return", error |-> "", value |-> p]
         /\ _iterators' = ensure_iterator(data_asset_name)
         /\ UNCHANGED <<store, _max_keys, _reader_method, _reader_options,
                        listed, resolved>>

_get_iterator(data_asset_name, reader_method, reader_options, limit) ==
    IF data_asset_name \notin DOMAIN _assets
    THEN /\ result' = [op |-> "_get_iterator", name |-> data_asset_name,
                       outcome |-> "raise", error |-> "BatchKwargsError",
                       value |-> ("data_asset_name" :> data_asset_name)
                                 @@ ("reader_method" :> reader_method)
                                 @@ ("reader_options" :> reader_options)
                                 @@ ("limit" :> limit)]
         /\ UNCHANGED <<store, _max_keys, _reader_method, _reader_options,
                        _iterators, passes, listed, resolved>>
    ELSE /\ FreeSlots # {}
         /\ LET p == CHOOSE q \in FreeSlots : \A r \in FreeSlots : q <= r
            IN  /\ passes' = [passes EXCEPT ![p] =
                       [Unused EXCEPT !.status = "created",
                                      !.name = data_asset_name,
                                      !.reader_method = reader_method,
                                      !.reader_options = reader_options,
                                      !.limit = limit]]
                /\ result' = [op |-> "_get_iterator", name |-> data_asset_name,
                              outcome |-> "return", error |-> "", value |-> p]
         /\ _iterators' = ensure_iterator(data_asset_name)
         /\ UNCHANGED <<store, _max_keys, _reader_method, _reader_options,
                        listed, resolved>>

----------------------------------------------------------------------------
(* next() on a generator of _build_asset_iterator (lines 333-348)          *)

\* the most recent listing response for an asset, after a call on the
\* connector that made the listing calls of log on behalf of who
Listed(old, log, who, stopped) ==
    IF log.calls # <<>>
    THEN [truncated |-> log.truncated, by |-> who, ended |-> stopped]
    ELSE IF old.by = who /\ stopped
         THEN [old EXCEPT !.ended = TRUE]
         ELSE old

\* lines 342-348: the arguments _build_asset_iterator passes on
_build_asset_iterator(self_reader_options, key, asset_config, reader_method, reader_options, limit) ==
    _build_batch_kwargs_from_key(self_reader_options, key, asset_config,
                                 None, reader_options, limit)

\* what one next() on pass p does when response number bad lacks its
\* collection: the generator's step and, on a yield, the descriptor built
next_step(p, bad) ==
    LET ps == passes[p]
        asset_config == _assets[ps.name]
        r == resume(asset_config, _iterators[ps.name], ps.gen, bad, NoCalls)
    IN  IF r.event = "yield"
        THEN [r |-> r,
              built |-> _build_asset_iterator(_reader_options, r.key[1],
                            asset_config, ps.reader_method,
                            ps.reader_options, ps.limit)]
        ELSE [r |-> r,
              built |-> [batch_kwargs |-> EmptyDict,
                         reader_options |-> _reader_options]]

generator_next(p, bad) ==
    /\ passes[p].status \in {"created", "suspended"}
    /\ bad <= Len(next_step(p, 0).r.log.calls)
    /\ \E step \in {next_step(p, bad)} :
       LET ps == passes[p]
           r == step.r
       IN  /\ _iterators' = [_iterators EXCEPT ![ps.name] = r.iterator_dict]
           /\ listed' = [listed EXCEPT ![ps.name] =
                             Listed(@, r.log, p, r.event = "stop")]
           /\ passes' = [passes EXCEPT ![p] =
                  [ps EXCEPT
                     !.status = CASE r.event = "yield" -> "suspended"
                                  [] r.event = "stop" -> "done"
                                  [] OTHER -> "raised",
                     !.gen = r.gen,
                     !.start = IF ps.status = "created"
                               THEN Some(_iterators[ps.name]) ELSE @,
                     !.out = IF r.event = "yield"
                             THEN Append(@, r.key[1]) ELSE @,
                     !.calls = @ \o r.log.calls]]
           /\ _reader_options' = step.built.reader_options
           /\ result' =
                  CASE r.event = "yield" ->
                         [op |-> "next", name |-> ps.name, pass |-> p,
                          outcome |-> "yield", error |-> "",
                          value |-> step.built.batch_kwargs, key |-> r.key[1],
                          reader_method |-> ps.reader_method,
                          reader_options |-> ps.reader_options]
                    [] r.event = "stop" ->
                         [op |-> "next", name |-> ps.name, pass |-> p,
                          outcome |-> "stop", error |-> "StopIteration"]
                    [] OTHER ->
                         [op |-> "next", name |-> ps.name, pass |-> p,
                          outcome |-> "raise", error |-> r.error]
    /\ UNCHANGED <<store, _max_keys, _reader_method, resolved>>

\* The caller drops generator p (close(), or garbage collection): the
\* generator has no finally clause, so nothing of the connector changes.
close(p) ==
    /\ passes[p].status # "unused"
    /\ passes' = [passes EXCEPT ![p] = Unused]
    /\ UNCHANGED <<store, _max_keys, _reader_method, _reader_options,
                   _iterators, listed, result, resolved>>

----------------------------------------------------------------------------
(* get_available_partition_ids (lines 351-371)                             *)

\* mutant of partition_ids: a partition id is listed once
RECURSIVE partition_ids_dedup(_, _, _)
partition_ids_dedup(keys, asset_config, now) ==
    IF keys = <<>>
    THEN <<>>
    ELSE LET front == partition_ids_dedup(SubSeq(keys, 1, Len(keys) - 1),
                                          asset_config, now)
             id == _partitioner(keys[Len(keys)], asset_config, now)
         IN  IF \E i \in 1..Len(front) : front[i] = id
             THEN front
             ELSE Append(front, id)

partition_ids(keys, asset_config, now) ==
    [i \in 1..Len(keys) |-> _partitioner(keys[i], asset_config, now)]

\* lines 363-370 for a registered name
ids_step(data_asset_name, bad) ==
    drain(_assets[data_asset_name],
          ensure_iterator(data_asset_name)[data_asset_name],
          NewGen, bad, NoCalls, <<>>)

get_available_partition_ids(data_asset_name, bad, now) ==
    IF data_asset_name \notin DOMAIN _assets
    THEN \* line 366 raises after lines 363-364 have run
         /\ bad = 0
         /\ _iterators' = ensure_iterator(data_asset_name)
         /\ result' = [op |-> "get_available_partition_ids",
                       name |-> data_asset_name, outcome |-> "raise",
                       error |-> "KeyError"]
         /\ UNCHANGED <<store, _max_keys, _reader_method, _reader_options,
                        passes, listed, resolved>>
    ELSE /\ bad <= Len(ids_step(data_asset_name, 0).log.calls)
         /\ \E d \in {ids_step(data_asset_name, bad)} :
            /\ _iterators' = [ensure_iterator(data_asset_name)
                                  EXCEPT ![data_asset_name] = d.iterator_dict]
            /\ listed' = [listed EXCEPT ![data_asset_name] =
                              Listed(@, d.log, 0, d.event = "stop")]
            /\ result' =
                   IF d.event = "stop"
                   THEN [op |-> "get_available_partition_ids",
                         name |-> data_asset_name, outcome |-> "return",
                         error |-> "",
                         value |-> partition_ids(d.keys,
                                       _assets[data_asset_name], now),
                         before |-> ensure_iterator(data_asset_name)
                                        [data_asset_name],
                         calls |-> d.log.calls, now |-> now]
                   ELSE [op |-> "get_available_partition_ids",
                         name |-> data_asset_name, outcome |-> "raise",
                         error |-> d.error,
                         before |-> ensure_iterator(data_asset_name)
                                        [data_asset_name],
                         calls |-> d.log.calls, now |-> now]
         /\ UNCHANGED <<store, _max_keys, _reader_method, _reader_options,
                        passes, resolved>>

----------------------------------------------------------------------------
(* _build_batch_kwargs (lines 177-234) with a partition_id                 *)

\* a or b
Or(a, b, truthy) == IF truthy THEN a ELSE b

\* execution_engine.process_batch_definition (lines 187-192) is not part of
\* this file.  Lines 216 and 233 use its result as a mapping (.get("limit"),
\* **batch_kwargs): a dict that carries the limit when one is given.
process_batch_definition(reader_method, reader_options, limit) ==
    IF limit # None THEN "limit" :> limit[1] ELSE EmptyDict

\* mutant of scan: the loop stops at the first key that resolves to the id
RECURSIVE scan_first(_, _, _, _, _, _, _)
scan_first(keys, asset_config, partition_id, now, reader_options, found, self_reader_options) ==
    IF keys = <<>>
    THEN [batch_kwargs |-> found, reader_options |-> self_reader_options]
    ELSE LET key == Head(keys)
             built == _build_batch_kwargs_from_key(
                          self_reader_options, key, asset_config, None,
                          reader_options, GetOpt(found[1], "limit"))
         IN  IF _partitioner(key, asset_config, now) = partition_id
             THEN [batch_kwargs |-> Some(built.batch_kwargs),
                   reader_options |-> built.reader_options]
             ELSE scan_first(Tail(keys), asset_config, partition_id, now,
                             reader_options, found, self_reader_options)

\* lines 205-219: the loop over the keys of the listing; found is the local
\* batch_kwargs, self_reader_options the connector's dict as the calls of
\* _build_batch_kwargs_from_key leave it
RECURSIVE scan(_, _, _, _, _, _, _)
scan(keys, asset_config, partition_id, now, reader_options, found, self_reader_options) ==
    IF keys = <<>>
    THEN [batch_kwargs |-> found, reader_options |-> self_reader_options]
    ELSE LET key == Head(keys)
             built == _build_batch_kwargs_from_key(
                          self_reader_options, key, asset_config, None,
                          reader_options, GetOpt(found[1], "limit"))
         IN  IF _partitioner(key, asset_config, now) = partition_id
             THEN scan(Tail(keys), asset_config, partition_id, now,
                       reader_options, Some(built.batch_kwargs),
                       built.reader_options)
             ELSE scan(Tail(keys), asset_config, partition_id, now,
                       reader_options, found, self_reader_options)

\* lines 186-219 for a registered name: the listing drained and scanned
build_step(batch_parameters, bad, now) ==
    LET data_asset_name == batch_parameters["data_asset_name"]
        asset_config == _assets[data_asset_name]
        engine == process_batch_definition(
            Or(GetOpt(batch_parameters, "reader_method"), _reader_method,
               TruthyStr(GetOpt(batch_parameters, "reader_method"))),
            Or(GetOpt(batch_parameters, "reader_options"),
               Some(_reader_options),
               TruthyDict(GetOpt(batch_parameters, "reader_options"))),
            GetOpt(batch_parameters, "limit"))
        d == drain(asset_config,
                   ensure_iterator(data_asset_name)[data_asset_name],
                   NewGen, bad, NoCalls, <<>>)
    IN  [d |-> d,
         s |-> scan(d.keys, asset_config, batch_parameters["partition_id"],
                    now, GetOpt(batch_parameters, "reader_options"),
                    Some(engine), _reader_options)]

_build_batch_kwargs(batch_parameters, bad, now) ==
    IF "data_asset_name" \notin DOMAIN batch_parameters
    THEN /\ bad = 0
         /\ result' = [op |-> "_build_batch_kwargs", name |-> "",
                       outcome |-> "raise", error |-> "BatchKwargsError",
                       batch_parameters |-> batch_parameters]
         /\ UNCHANGED <<store, _max_keys, _reader_method, _reader_options,
                        _iterators, passes, listed, resolved>>
    ELSE
    LET data_asset_name == batch_parameters["data_asset_name"]
    IN  \* the branch of lines 231-234 (no partition_id) hands over to
        \* DataConnector.yield_batch_kwargs, which is not part of this file
        /\ Len(Get(batch_parameters, "partition_id", None)) > 0
        /\ IF data_asset_name \notin DOMAIN _assets
           THEN /\ bad = 0
                /\ result' = [op |-> "_build_batch_kwargs",
                              name |-> data_asset_name, outcome |-> "raise",
                              error |-> "GreatExpectationsError",
                              batch_parameters |-> batch_parameters]
                /\ UNCHANGED <<store, _max_keys, _reader_method,
                               _reader_options, _iterators, passes, listed,
                               resolved>>
           ELSE
           /\ bad <= Len(ids_step(data_asset_name, 0).log.calls)
           /\ \E step \in {build_step(batch_parameters, bad, now)} :
              LET d == step.d
                  s == step.s
              IN
              /\ _iterators' = [ensure_iterator(data_asset_name)
                                    EXCEPT ![data_asset_name] = d.iterator_dict]
              /\ listed' = [listed EXCEPT ![data_asset_name] =
                                Listed(@, d.log, 0, d.event = "stop")]
              /\ _reader_options' = s.reader_options
              /\ result' =
                     LET seen == [batch_parameters |-> batch_parameters,
                                  before |-> ensure_iterator(data_asset_name)
                                                 [data_asset_name],
                                  calls |-> d.log.calls, now |-> now,
                                  scanned |-> d.event = "stop"]
                     IN
                     IF d.event = "raise"
                     THEN [op |-> "_build_batch_kwargs",
                           name |-> data_asset_name, outcome |-> "raise",
                           error |-> d.error] @@ seen
                     ELSE IF s.batch_kwargs = None     \* line 221
                     THEN [op |-> "_build_batch_kwargs",
                           name |-> data_asset_name, outcome |-> "raise",
                           error |-> "BatchKwargsError"] @@ seen
                     ELSE [op |-> "_build_batch_kwargs",
                           name |-> data_asset_name, outcome |-> "return",
                           error |-> "", value |-> s.batch_kwargs[1],
                           reader_method |->
                               GetOpt(batch_parameters, "reader_method"),
                           reader_options |->
                               GetOpt(batch_parameters, "reader_options")]
                          @@ seen
              /\ UNCHANGED <<store, _max_keys, _reader_method, passes,
                             resolved>>

----------------------------------------------------------------------------
(* _partitioner called on its own                                          *)

Resolve(key, asset_config, now) ==
    /\ resolved' = [op |-> "_partitioner", key |-> key,
                    asset_config |-> asset_config, now |-> now,
                    outcome |-> "return",
                    value |-> _partitioner(key, asset_config, now)]
    /\ UNCHANGED <<store, _max_keys, _reader_method, _reader_options,
                   _iterators, passes, listed, result>>

----------------------------------------------------------------------------
(* Specifications                                                          *)

\* partition ids a caller asks for
RequestedIds == { <<"2", "0">>, <<"0", "/">> }

BatchParameters ==
    { ("data_asset_name" :> "logs") @@ ("partition_id" :> id) :
          id \in RequestedIds }

\* the response of one call on the connector that lacks its collection
\* (0: none does)
BadResponses == 0..MaxObjects

\* at most one generator is alive
NoGenerator == \A p \in 1..MaxPasses : passes[p].status = "unused"

\* One generator at a time (the caller drops it before asking for another),
\* and the calls that drain a listing in one go.
Next ==
    \/ NoGenerator /\ _get_iterator("logs", None, None, None)
    \/ \E p \in 1..MaxPasses, bad \in BadResponses : generator_next(p, bad)
    \/ \E p \in 1..MaxPasses : close(p)
    \/ \E bad \in BadResponses, now \in Clock :
           get_available_partition_ids("logs", bad, now)
    \/ \E bp \in BatchParameters, bad \in BadResponses, now \in Clock :
           _build_batch_kwargs(bp, bad, now)

Spec == Init /\ [][Next]_vars

\* Up to MaxPasses generators alive at once, their next() calls interleaved.
NextPasses ==
    \/ _get_iterator("logs", None, None, None)
    \/ \E p \in 1..MaxPasses, bad \in BadResponses : generator_next(p, bad)

SpecPasses == Init /\ [][NextPasses]_vars

\* Descriptors built for both assets with call-level overrides, over a store
\* of well-formed responses.
ReaderMethods == { None, Some("json") }
Overrides == { None, Some(EmptyDict), Some("hdr" :> "0") }

Optional(k, o) == IF o = None THEN EmptyDict ELSE k :> o[1]

\* a partition id of each asset that a key of the store resolves to
Requests ==
    { ("data_asset_name" :> "logs") @@ ("partition_id" :> <<"2", "0">>),
      ("data_asset_name" :> "dirs") @@ ("partition_id" :> <<"0", "/">>) }

BuildParameters ==
    { r @@ Optional("reader_method", rm) @@ Optional("reader_options", ro) :
          r \in Requests, rm \in ReaderMethods, ro \in Overrides }

InitBuild ==
    /\ InitConnector
    /\ store = StoreOf(<< [Key |-> <<"2", "0", "/", "l">>, Size |-> 1] >>)
    /\ _max_keys = 2
    /\ _reader_method \in { None, Some("parquet") }

NextBuild ==
    \/ \E n \in DOMAIN _assets, rm \in ReaderMethods, ro \in Overrides :
           NoGenerator /\ _get_iterator(n, rm, ro, None)
    \/ \E p \in 1..MaxPasses : generator_next(p, 0)
    \/ \E p \in 1..MaxPasses : close(p)
    \/ \E bp \in BuildParameters, now \in Clock :
           _build_batch_kwargs(bp, 0, now)

SpecBuild == InitBuild /\ [][NextBuild]_vars

\* _partitioner on its own, over keys and asset configurations
PartitionerAlphabet == {"2", "0", "m", "/"}
MaxKeyLen == 3
PartitionerKeys ==
    UNION { [1..n -> PartitionerAlphabet] : n \in 0..MaxKeyLen }

PartitionerConfigs ==
    { ("prefix" :> <<>>) @@ ("partition_regex" :> TwoDigits),
      ("prefix" :> <<>>) @@ ("partition_regex" :> TwoDigits)
          @@ ("match_group_id" :> 0),
      ("prefix" :> <<>>) @@ ("partition_regex" :> TwoDigits)
          @@ ("match_group_id" :> 2),
      ("prefix" :> <<"m", "/">>) }

InitPartitioner ==
    /\ InitConnector
    /\ store = StoreOf(<<>>)
    /\ _max_keys \in PageSizes
    /\ _reader_method = Some("parquet")

NextPartitioner ==
    \E key \in PartitionerKeys, asset_config \in PartitionerConfigs,
       now \in Timestamps : Resolve(key, asset_config, now)

SpecPartitioner == InitPartitioner /\ [][NextPartitioner]_vars

----------------------------------------------------------------------------
(* What the store holds, computed from the store alone                     *)

Max(a, b) == IF a > b THEN a ELSE b
CeilDiv(n, k) == (n + k - 1) \div k
IsPrefix(s, t) == Len(s) <= Len(t) /\ SubSeq(t, 1, Len(s)) = s

Listing(name) == store[_assets[name]["prefix"]]
PageSize(name) == Get(_assets[name], "max_keys", _max_keys)

\* an entry passes the zero-size filter (file mode) and the regex filter
Survives(entry, asset_config) ==
    /\ Get(asset_config, "directory_assets", FALSE) \/ entry.Size > 0
    /\ re_match(Get(asset_config, "regex_filter", MatchAll), entry.Key) # None

\* the surviving keys of the asset from the entry after offset on
SurvivingFrom(name, offset) ==
    LET Test(entry) == Survives(entry, _assets[name])
        kept == SelectSeq(SubSeq(Listing(name), offset + 1,
                                 Len(Listing(name))), Test)
    IN  [i \in 1..Len(kept) |-> kept[i].Key]

SurvivingKeys(name) == SurvivingFrom(name, 0)

\* the offset a stored continuation token names (0: no token)
TokenOffset(iterator_dict) == Get(iterator_dict, "continuation_token", 0)

HasToken(name) ==
    /\ name \in DOMAIN _iterators
    /\ "continuation_token" \in DOMAIN _iterators[name]

NumPages(name) == Max(1, CeilDiv(Len(Listing(name)), PageSize(name)))

\* the token each listing call of a pass over the whole asset carries
ExpectedCalls(name) ==
    [i \in 1..NumPages(name) |->
        IF i = 1 THEN None ELSE Some((i - 1) * PageSize(name))]

StartedEmpty(p) ==
    /\ passes[p].start # None
    /\ "continuation_token" \notin DOMAIN passes[p].start[1]

Drained(p) == passes[p].status = "done"

ExpectedIds(keys, asset_config, now) ==
    [i \in 1..Len(keys) |-> _partitioner(keys[i], asset_config, now)]

\* the keys among keys that resolve to partition_id
Matching(keys, asset_config, partition_id, now) ==
    LET Test(key) == _partitioner(key, asset_config, now) = partition_id
    IN  SelectSeq(keys, Test)

Last(s) == s[Len(s)]

----------------------------------------------------------------------------
(* Claims                                                                  *)

\* C1 (as stated): for every asset, in every reachable state, the stored
\* state holds a continuation_token iff the most recent listing response
\* for that asset had IsTruncated = true.
C1_TokenIffLastTruncated ==
    \A n \in DOMAIN _assets :
        HasToken(n) <=> listed[n].truncated = Some(TRUE)

\* C1 (amended): in every reachable state in which the pass that received
\* the most recent listing response for the asset has been consumed to
\* exhaustion, the stored state holds a continuation_token iff that response
\* had IsTruncated = true (neither is the case).
C1_TokenIffLastTruncatedOncePassEnded ==
    \A n \in DOMAIN _assets :
        listed[n].ended =>
            (HasToken(n) <=> listed[n].truncated = Some(TRUE))

\* a pass over several pages has ended: its token was stored and cleared
C1_Witness ==
    \E p \in 1..MaxPasses :
        /\ Drained(p)
        /\ Len(passes[p].calls) >= 2
        /\ listed[passes[p].name].by = p
        /\ listed[passes[p].name].ended
        /\ ~HasToken(passes[p].name)

\* C2: a pass started with empty state and consumed to exhaustion yields the
\* surviving keys of every page in page order and in the store's order, and
\* requests each page after the first with the NextContinuationToken of the
\* page before it.
C2_FullPassInStoreOrder ==
    \A p \in 1..MaxPasses :
        Drained(p) /\ StartedEmpty(p) =>
            /\ passes[p].out = SurvivingKeys(passes[p].name)
            /\ passes[p].calls = ExpectedCalls(passes[p].name)

\* a drained pass over two pages or more that yielded two keys or more and
\* dropped an entry
C2_Witness ==
    \E p \in 1..MaxPasses :
        /\ Drained(p) /\ StartedEmpty(p)
        /\ Len(passes[p].calls) >= 2
        /\ Len(passes[p].out) >= 2
        /\ Len(passes[p].out) < Len(Listing(passes[p].name))

\* C3 (as stated): get_available_partition_ids returns one partition id for
\* every surviving key of the whole asset, in listing order, duplicates kept,
\* whatever was done on the connector before.
C3_IdsOfWholeAsset ==
    result.op = "get_available_partition_ids" /\ result.outcome = "return" =>
        result.value = ExpectedIds(SurvivingKeys(result.name),
                                   _assets[result.name], result.now)

\* C3 (amended): get_available_partition_ids returns one partition id for
\* every surviving key of the pages from the stored continuation token's
\* page on (the whole asset when no token is stored), in listing order,
\* duplicates kept.
C3_IdsFromStoredToken ==
    result.op = "get_available_partition_ids" /\ result.outcome = "return" =>
        result.value =
            ExpectedIds(SurvivingFrom(result.name, TokenOffset(result.before)),
                        _assets[result.name], result.now)

\* ids listed from a stored token: fewer than the asset has surviving keys
C3_Witness ==
    /\ result.op = "get_available_partition_ids"
    /\ result.outcome = "return"
    /\ "continuation_token" \in DOMAIN result.before
    /\ Len(result.value) >= 1
    /\ Len(result.value) < Len(SurvivingKeys(result.name))

\* C4: _build_batch_kwargs with a partition_id raises BatchKwargsError
\* whenever no surviving key of the asset resolves to the id.
C4_NoMatchRaises ==
    /\ result.op = "_build_batch_kwargs"
    /\ result.name \in DOMAIN _assets
    /\ Matching(SurvivingKeys(result.name), _assets[result.name],
                result.batch_parameters["partition_id"], result.now) = <<>>
    => result.outcome = "raise" /\ result.error = "BatchKwargsError"

\* C7: the first listing request of a pass carries the continuation token
\* stored for the asset when the pass is first pulled (none when the stored
\* state is empty), and the pass yields surviving keys from that page on.
C7_PassResumesFromStoredToken ==
    \A p \in 1..MaxPasses :
        passes[p].start # None =>
            /\ passes[p].calls # <<>>
            /\ passes[p].calls[1] =
                   GetOpt(passes[p].start[1], "continuation_token")
            /\ IsPrefix(passes[p].out,
                        SurvivingFrom(passes[p].name,
                                      TokenOffset(passes[p].start[1])))

\* a pass that found a stored token at its first pull and yielded a key
C7_Witness ==
    \E p \in 1..MaxPasses :
        /\ passes[p].start # None
        /\ "continuation_token" \in DOMAIN passes[p].start[1]
        /\ passes[p].calls[1] # None
        /\ Len(passes[p].out) >= 1

\* C8 (as stated): a pass started with empty state and consumed to
\* exhaustion over an asset with N surviving keys and page size K makes
\* ceil(N / K) listing calls.
C8_CallsPerSurvivingKeys ==
    \A p \in 1..MaxPasses :
        Drained(p) /\ StartedEmpty(p) =>
            Len(passes[p].calls) =
                CeilDiv(Len(SurvivingKeys(passes[p].name)),
                        PageSize(passes[p].name))

\* C8 (amended): a pass started with empty state and consumed to exhaustion
\* over an asset whose listing holds M entries before filtering makes
\* max(1, ceil(M / K)) listing calls, K being the page size.
C8_CallsPerListedEntries ==
    \A p \in 1..MaxPasses :
        Drained(p) /\ StartedEmpty(p) =>
            Len(passes[p].calls) =
                Max(1, CeilDiv(Len(Listing(passes[p].name)),
                               PageSize(passes[p].name)))

\* a drained pass over pages that held more entries than survive, with more
\* calls than the surviving keys alone would take
C8_Witness ==
    \E p \in 1..MaxPasses :
        /\ Drained(p) /\ StartedEmpty(p)
        /\ Len(passes[p].calls) >= 2
        /\ Len(passes[p].calls) >
               CeilDiv(Len(SurvivingKeys(passes[p].name)),
                       PageSize(passes[p].name))

\* C9 (as stated): when several surviving keys of the asset resolve to the
\* requested partition id and the listing does not raise, _build_batch_kwargs
\* returns the batch_kwargs built from the last such key in listing order.
C9_LastMatchOfAsset ==
    LET matching == Matching(SurvivingKeys(result.name),
                             _assets[result.name],
                             result.batch_parameters["partition_id"],
                             result.now)
    IN  /\ result.op = "_build_batch_kwargs"
        /\ result.name \in DOMAIN _assets
        /\ result.scanned
        /\ Len(matching) >= 2
        => /\ result.outcome = "return"
           /\ "s3" \in DOMAIN result.value
           /\ result.value["s3"] = S3Uri(Last(matching))

\* C9 (amended): when several surviving keys among the pages the scan lists
\* (from the stored continuation token's page on) resolve to the requested
\* partition id and the listing does not raise, _build_batch_kwargs returns
\* the batch_kwargs built from the last such key in listing order.
C9_LastMatchScanned ==
    LET matching == Matching(SurvivingFrom(result.name,
                                           TokenOffset(result.before)),
                             _assets[result.name],
                             result.batch_parameters["partition_id"],
                             result.now)
    IN  /\ result.op = "_build_batch_kwargs"
        /\ result.name \in DOMAIN _assets
        /\ result.scanned
        /\ Len(matching) >= 2
        => /\ result.outcome = "return"
           /\ "s3" \in DOMAIN result.value
           /\ result.value["s3"] = S3Uri(Last(matching))

\* two keys resolved to the id and the descriptor is the second one's
C9_Witness ==
    /\ result.op = "_build_batch_kwargs"
    /\ result.outcome = "return"
    /\ "s3" \in DOMAIN result.value
    /\ \E i, j \in 1..Len(SurvivingKeys(result.name)) :
          /\ i < j
          /\ _partitioner(SurvivingKeys(result.name)[i],
                          _assets[result.name], result.now)
                 = result.batch_parameters["partition_id"]
          /\ result.value["s3"] = S3Uri(SurvivingKeys(result.name)[j])

\* the descriptor a call on the connector handed out, for a key of asset
\* result.name, with the call's overrides result.reader_method and
\* result.reader_options
DescriptorBuilt ==
    \/ result.op = "next" /\ result.outcome = "yield"
    \/ /\ result.op = "_build_batch_kwargs" /\ result.outcome = "return"
       /\ "s3" \in DOMAIN result.value

\* connector's configured reader_options, then the asset's, then the override
MergedReaderOptions(name, override) ==
    Update(Update(ConfiguredReaderOptions,
                  Get(_assets[name], "reader_options", EmptyDict)),
           IF override = None THEN EmptyDict ELSE override[1])

\* override, else the asset's, else the connector's reader_method
ReaderMethodByPrecedence(name, override) ==
    IF override # None
    THEN override
    ELSE IF "reader_method" \in DOMAIN _assets[name]
         THEN Some(_assets[name]["reader_method"])
         ELSE _reader_method

\* C5: after any sequence of earlier descriptor-building calls, the
\* reader_options of a descriptor built for asset A with override O are the
\* shallow merge of the connector's configured reader_options, then A's,
\* then O.
C5_ReaderOptionsMerge ==
    DescriptorBuilt =>
        result.value["reader_options"] =
            MergedReaderOptions(result.name, result.reader_options)

\* C6: the reader_method of every descriptor is the call-level override when
\* one is given, else the asset's when set, else the connector's.
C6_ReaderMethodPrecedence ==
    DescriptorBuilt =>
        GetOpt(result.value, "reader_method") =
            ReaderMethodByPrecedence(result.name, result.reader_method)

\* the pattern occurs somewhere in the key
Occurs(pattern, key) ==
    \E pos \in 1..(Len(key) + 1) : MatchesAt(pattern, key, pos)

FirstOccurrence(pattern, key) ==
    CHOOSE pos \in 1..(Len(key) + 1) :
        /\ MatchesAt(pattern, key, pos)
        /\ \A q \in 1..(pos - 1) : ~MatchesAt(pattern, key, q)

\* the text group g captures when the pattern matches key at pos
Captured(pattern, key, pos, g) ==
    IF g = 0
    THEN SubSeq(key, pos, pos + Len(pattern.atoms) - 1)
    ELSE SubSeq(key, pos + pattern.groups[g][1] - 1,
                     pos + pattern.groups[g][2] - 1)

GroupInRange(asset_config) ==
    Get(asset_config, "match_group_id", 1)
        \in 0..Len(asset_config["partition_regex"].groups)

\* C10 (as stated): with partition_regex configured, _partitioner returns the
\* text captured by group match_group_id whenever the pattern occurs in the
\* key, a sentinel ending in "__unmatched" only when the pattern does not
\* occur in the key, and a sentinel ending in "__no_match_group" when the
\* pattern matches but the group index is out of range; it never raises.
C10_GroupWhereverPatternOccurs ==
    LET cfg == resolved.asset_config
        pattern == cfg["partition_regex"]
    IN  resolved.op = "_partitioner" /\ "partition_regex" \in DOMAIN cfg =>
            /\ resolved.outcome = "return"
            /\ resolved.value =
                   IF ~Occurs(pattern, resolved.key)
                   THEN resolved.now \o <<"__unmatched">>
                   ELSE IF ~GroupInRange(cfg)
                   THEN resolved.now \o <<"__no_match_group">>
                   ELSE Captured(pattern, resolved.key,
                                 FirstOccurrence(pattern, resolved.key),
                                 Get(cfg, "match_group_id", 1))

\* C10 (amended): with partition_regex configured, _partitioner returns the
\* text captured by group match_group_id whenever the pattern matches at the
\* start of the key, a sentinel ending in "__unmatched" whenever it does not
\* match there (even if it occurs later in the key), and a sentinel ending
\* in "__no_match_group" when the pattern matches at the start but the group
\* index is out of range; it never raises.
C10_GroupWherePatternMatchesAtStart ==
    LET cfg == resolved.asset_config
        pattern == cfg["partition_regex"]
    IN  resolved.op = "_partitioner" /\ "partition_regex" \in DOMAIN cfg =>
            /\ resolved.outcome = "return"
            /\ resolved.value =
                   IF ~MatchesAt(pattern, resolved.key, 1)
                   THEN resolved.now \o <<"__unmatched">>
                   ELSE IF ~GroupInRange(cfg)
                   THEN resolved.now \o <<"__no_match_group">>
                   ELSE Captured(pattern, resolved.key, 1,
                                 Get(cfg, "match_group_id", 1))

\* a key that holds the pattern after its start resolved to "__unmatched"
C10_Witness ==
    /\ resolved.op = "_partitioner"
    /\ "partition_regex" \in DOMAIN resolved.asset_config
    /\ Occurs(resolved.asset_config["partition_regex"], resolved.key)
    /\ ~MatchesAt(resolved.asset_config["partition_regex"], resolved.key, 1)
    /\ resolved.value = resolved.now \o <<"__unmatched">>

\* the key without the prefix at its front, when it is there
WithoutPrefix(key, prefix) ==
    IF Len(prefix) <= Len(key) /\ SubSeq(key, 1, Len(prefix)) = prefix
    THEN SubSeq(key, Len(prefix) + 1, Len(key))
    ELSE key

FallbackResolved ==
    /\ resolved.op = "_partitioner"
    /\ "partition_regex" \notin DOMAIN resolved.asset_config

\* C11: without partition_regex, _partitioner returns the key with the
\* asset's prefix removed from its front if the key starts with it and the
\* key unchanged otherwise, and a repeated call with the same key and
\* configuration returns the same partition id (whatever the time).
C11_FallbackStripsPrefix ==
    /\ [](FallbackResolved =>
              resolved.value =
                  WithoutPrefix(resolved.key,
                                Get(resolved.asset_config, "prefix", <<>>)))
    /\ [][FallbackResolved /\ FallbackResolved'
          /\ resolved'.key = resolved.key
          /\ resolved'.asset_config = resolved.asset_config
          => resolved'.value = resolved.value]_vars

\* a key under the prefix resolved to what follows the prefix, and a key
\* outside the prefix would resolve to itself
C11_Witness ==
    /\ FallbackResolved
    /\ resolved.asset_config["prefix"] # <<>>
    /\ Len(resolved.key) > Len(resolved.asset_config["prefix"])
    /\ resolved.value # resolved.key
    /\ resolved.asset_config["prefix"] \o resolved.value = resolved.key

\* the surviving keys among the entries after from up to to
SurvivingBetween(name, from, to) ==
    LET Test(entry) == Survives(entry, _assets[name])
        kept == SelectSeq(SubSeq(Listing(name), from + 1,
                                 Min(to, Len(Listing(name)))), Test)
    IN  [i \in 1..Len(kept) |-> kept[i].Key]

StoredToken(name) == GetOpt(_iterators[name], "continuation_token")

OffsetOf(token) == IF token = None THEN 0 ELSE token[1]

----------------------------------------------------------------------------
(* Calls with asset names that are and are not registered                  *)

NamedParameters ==
    { ("data_asset_name" :> n) @@ ("partition_id" :> id) :
          n \in Names, id \in RequestedIds }
    \cup { "partition_id" :> id : id \in RequestedIds }

InitNames ==
    /\ InitConnector
    /\ store \in { StoreOf(logs) : logs \in Listings(LogsEntries, 1) }
    /\ _max_keys \in PageSizes
    /\ _reader_method = Some("parquet")

NextNames ==
    \/ \E n \in Names : NoGenerator /\ _get_iterator(n, None, None, None)
    \/ \E p \in 1..MaxPasses : generator_next(p, 0)
    \/ \E p \in 1..MaxPasses : close(p)
    \/ \E n \in Names, now \in Clock : get_available_partition_ids(n, 0, now)
    \/ \E bp \in NamedParameters, now \in Clock :
           _build_batch_kwargs(bp, 0, now)

SpecNames == InitNames /\ [][NextNames]_vars

Unregistered == Names \ DOMAIN _assets

\* the errors of an unknown asset name: BatchKwargsError (lines 154-156) and
\* its base class GreatExpectationsError (lines 198-200)
UnknownAssetError == {"BatchKwargsError", "GreatExpectationsError"}

\* C13: _get_iterator and _build_batch_kwargs with a partition_id fail for an
\* asset name that is not registered, with no listing call issued and the
\* per-asset iterator state neither added to nor changed.
C13_UnknownAssetFails ==
    [][/\ \A n \in Unregistered :
              result'.op = "_get_iterator"
              /\ _get_iterator(n, None, None, None)
              => /\ result'.outcome = "raise"
                 /\ result'.error \in UnknownAssetError
                 /\ UNCHANGED <<_iterators, listed, passes>>
       /\ \A bp \in NamedParameters, now \in Clock :
              /\ result'.op = "_build_batch_kwargs"
              /\ "data_asset_name" \in DOMAIN bp
              /\ bp["data_asset_name"] \in Unregistered
              /\ _build_batch_kwargs(bp, 0, now)
              => /\ result'.outcome = "raise"
                 /\ result'.error \in UnknownAssetError
                 /\ UNCHANGED <<_iterators, listed, passes>>
      ]_vars

\* both calls have failed for the unregistered name and no state exists
\* for it
C13_Witness ==
    /\ result.op \in {"_get_iterator", "_build_batch_kwargs"}
    /\ result.name \in Unregistered
    /\ result.outcome = "raise"
    /\ result.name \notin DOMAIN _iterators
    /\ \E n \in DOMAIN _assets : HasToken(n)

\* C20: in every reachable state _iterators has entries only for registered
\* asset names.
C20_IteratorsOnlyForRegistered ==
    DOMAIN _iterators \subseteq DOMAIN _assets

----------------------------------------------------------------------------
\* the entries of positive size the store lists for the asset
SizedEntries(name) ==
    { Listing(name)[i] : i \in { j \in 1..Len(Listing(name)) :
                                     Listing(name)[j].Size > 0 } }

\* the key is one of an entry of positive size that passes the regex filter
SizedAndWanted(name, key) ==
    \E e \in SizedEntries(name) :
        /\ e.Key = key
        /\ re_match(Get(_assets[name], "regex_filter", MatchAll), key) # None

FileMode(name) ==
    /\ name \in DOMAIN _assets
    /\ ~Get(_assets[name], "directory_assets", FALSE)

\* C14: in file mode no key of an entry of size 0 is yielded by a pass, is
\* in a batch descriptor or gives an id of the partition-id list: whatever
\* comes out comes from an entry of positive size that passes the regex
\* filter.
C14_ZeroSizeNeverOut ==
    /\ \A p \in 1..MaxPasses :
           FileMode(passes[p].name) =>
               \A i \in 1..Len(passes[p].out) :
                   SizedAndWanted(passes[p].name, passes[p].out[i])
    /\ DescriptorBuilt /\ FileMode(result.name) =>
           \E e \in SizedEntries(result.name) :
               /\ result.value["s3"] = S3Uri(e.Key)
               /\ SizedAndWanted(result.name, e.Key)
    /\ /\ result.op = "get_available_partition_ids"
       /\ result.outcome = "return"
       /\ FileMode(result.name)
       => \A i \in 1..Len(result.value) :
              \E e \in SizedEntries(result.name) :
                  /\ SizedAndWanted(result.name, e.Key)
                  /\ result.value[i] =
                         _partitioner(e.Key, _assets[result.name], result.now)

\* a drained pass over a listing that holds an entry of size 0 whose key
\* passes the regex filter, next to keys that were yielded
C14_Witness ==
    \E p \in 1..MaxPasses :
        /\ Drained(p)
        /\ FileMode(passes[p].name)
        /\ Len(passes[p].out) >= 1
        /\ \E i \in 1..Len(Listing(passes[p].name)) :
              /\ Listing(passes[p].name)[i].Size = 0
              /\ re_match(_assets[passes[p].name]["regex_filter"],
                          Listing(passes[p].name)[i].Key) # None

\* the offset of the page the latest listing call of pass p asked for
LatestOffset(p) == OffsetOf(Last(passes[p].calls))

\* the surviving keys of the pages pass p had left behind when it made its
\* latest listing call
KeysBeforeLatestPage(p) ==
    SurvivingBetween(passes[p].name, TokenOffset(passes[p].start[1]),
                     LatestOffset(p))

\* C15: a pass makes no listing call before its first element is requested;
\* when it makes the call for a page, every surviving key of the pages before
\* it has been handed over; and after handing over an element its latest
\* call is the one for the page that holds this element.
C15_PullDriven ==
    \A p \in 1..MaxPasses :
        /\ passes[p].status = "created" => passes[p].calls = <<>>
        /\ passes[p].calls # <<>> =>
               IsPrefix(KeysBeforeLatestPage(p), passes[p].out)
        /\ passes[p].status = "suspended" =>
               /\ Len(passes[p].out) > Len(KeysBeforeLatestPage(p))
               /\ IsPrefix(passes[p].out,
                      SurvivingBetween(passes[p].name,
                          TokenOffset(passes[p].start[1]),
                          LatestOffset(p) + PageSize(passes[p].name)))

\* a pass stopped after its second call with a page of the listing not asked
\* for
C15_Witness ==
    \E p \in 1..MaxPasses :
        /\ passes[p].status = "suspended"
        /\ Len(passes[p].calls) = 2
        /\ Len(passes[p].out) >= 2
        /\ LatestOffset(p) + PageSize(passes[p].name)
               < Len(Listing(passes[p].name))

----------------------------------------------------------------------------
(* Passes the consumer keeps pulling, over well-formed responses           *)

NextLive ==
    \/ _get_iterator("logs", None, None, None)
    \/ \E p \in 1..MaxPasses : generator_next(p, 0)

Live(p) == passes[p].status \in {"created", "suspended"}

\* The consumer keeps pulling generator p: weak fairness of
\* generator_next(p, 0).  A generator can be pulled exactly when it is Live
\* and a pull always changes it, so ENABLED <<generator_next(p, 0)>>_vars is
\* Live(p), and WF_vars(generator_next(p, 0)) is written out as
KeepsPulling(p) ==
    []<>(~Live(p)) \/ []<><<generator_next(p, 0)>>_vars

SpecLive ==
    /\ Init
    /\ [][NextLive]_vars
    /\ \A p \in 1..MaxPasses : KeepsPulling(p)

C17_PassSeesOtherPassToken ==
    \A p \in 1..MaxPasses :
        Drained(p) =>
            passes[p].out =
                SurvivingFrom(passes[p].name, TokenOffset(passes[p].start[1]))

\* a pass ended, while the other pass was in the middle of its listing,
\* with fewer keys than the asset has surviving keys
C17_Witness ==
    \E p, q \in 1..MaxPasses :
        /\ p # q
        /\ Drained(p)
        /\ passes[q].status = "suspended"
        /\ passes[q].name = passes[p].name
        /\ passes[p].out # SurvivingKeys(passes[p].name)
        /\ Len(passes[p].out) >= 1

\* C18: after any sequence of descriptor builds the connector's
\* reader_options equal the value given at construction.
C18_ReaderOptionsUnchanged ==
    _reader_options = ConfiguredReaderOptions

----------------------------------------------------------------------------
(* Passes run one after another: only the latest generator is pulled, and  *)
(* the first one is dropped only while it is the only one                  *)

Latest(p) == \A q \in (p + 1)..MaxPasses : passes[q].status = "unused"

NextSequential ==
    \/ _get_iterator("logs", None, None, None)
    \/ \E p \in 1..MaxPasses : Latest(p) /\ generator_next(p, 0)
    \/ Latest(1) /\ close(1)

SpecSequential == Init /\ [][NextSequential]_vars

Range(seq) == { seq[i] : i \in 1..Len(seq) }

\* the consumer stopped pulling pass p after an element
Abandoned(p) == passes[p].status = "suspended"

\* C19 (as stated): the keys yielded by an abandoned pass together with the
\* keys yielded by the next pass, drained to exhaustion, include every
\* surviving key of the asset.
C19_NoKeyLost ==
    \A p \in 1..(MaxPasses - 1) :
        Abandoned(p) /\ Drained(p + 1) =>
            Range(SurvivingKeys(passes[p].name))
                \subseteq Range(passes[p].out) \cup Range(passes[p + 1].out)

\* C19 (amended): the keys yielded by an abandoned pass that started from
\* empty state together with the keys yielded by the next pass, drained to
\* exhaustion, include every surviving key of the asset.
C19_NoKeyLostAfterFreshPass ==
    \A p \in 1..(MaxPasses - 1) :
        Abandoned(p) /\ StartedEmpty(p) /\ Drained(p + 1) =>
            Range(SurvivingKeys(passes[p].name))
                \subseteq Range(passes[p].out) \cup Range(passes[p + 1].out)

\* a pass from empty state abandoned past its first page, and the next pass
\* resumed from the token it left and drained
C19_Witness ==
    \E p \in 1..(MaxPasses - 1) :
        /\ Abandoned(p) /\ StartedEmpty(p) /\ Drained(p + 1)
        /\ "continuation_token" \in DOMAIN passes[p + 1].start[1]
        /\ Len(passes[p + 1].out) >= 1
        /\ passes[p + 1].out # SurvivingKeys(passes[p].name)

====
